---- MODULE Spec2Model ----
(***************************************************************************)
(* Model of the asynchronous pull-request review service:                  *)
(*   main.py    - the HTTP endpoints (submit, status, results)             *)
(*   worker.py  - the Celery task analyze_pr_task, the result pipeline     *)
(*                (clean_llm_output, parse_and_validate_result) and the    *)
(*                store reader get_task_status                             *)
(*   models.py  - the pydantic schema of the report                        *)
(*   github_service.py / agents.py - the collaborator calls                *)
(*                                                                         *)
(* Texts are sequences of one-character strings.  A JSON document inside   *)
(* a text is a single element naming the document (see DocValue); every    *)
(* other element is an ordinary character.  JSON values are tagged         *)
(* records, Python dicts are functions from key strings to JSON values.    *)
(***************************************************************************)
EXTENDS Integers, Sequences, FiniteSets, TLC

\* ------------------------------------------------------------------ bounds
MaxJobs == 2
\* the number of pieces a generated model output is made of
MaxChunks == 4

\* ------------------------------------------------------- program constants
SnippetLen == 1000
FenceJsonLen == 7
FenceLen == 3

\* --------------------------------------------------------------- JSON values
JNull == [t |-> "null"]
JInt(n) == [t |-> "int", i |-> n]
JStr(s) == [t |-> "str", s |-> s]
JArr(a) == [t |-> "arr", a |-> a]
JObj(o) == [t |-> "obj", o |-> o]

\* Python truthiness of a JSON value (used by the expression: a or b)
Truthy(v) ==
    CASE v.t = "null" -> FALSE
      [] v.t = "int" -> v.i # 0
      [] v.t = "str" -> Len(v.s) > 0
      [] v.t = "arr" -> Len(v.a) > 0
      [] v.t = "obj" -> DOMAIN v.o # {}
      [] OTHER -> TRUE

\* dict.get(key): the value, or None when the key is absent
DictGet(d, k) == IF k \in DOMAIN d THEN d[k] ELSE JNull

\* ------------------------------------------------------------------- texts
Whitespace == {" ", "\n"}
\* the backtick character
BT == "bt"
Fence == <<BT, BT, BT>>
FenceJson == <<BT, BT, BT, "j", "s", "o", "n">>

StartsWith(s, p) == Len(s) >= Len(p) /\ SubSeq(s, 1, Len(p)) = p
EndsWith(s, p) == Len(s) >= Len(p) /\ SubSeq(s, Len(s) - Len(p) + 1, Len(s)) = p
\* Python slices s[n:], s[:-n] and s[:n]
DropFirst(s, n) == SubSeq(s, n + 1, Len(s))
DropLast(s, n) == SubSeq(s, 1, Len(s) - n)
TakeFirst(s, n) == SubSeq(s, 1, IF Len(s) < n THEN Len(s) ELSE n)

\* str.strip()
Strip(s) ==
    LET keep == {i \in 1..Len(s) : s[i] \notin Whitespace}
    IN  IF keep = {} THEN <<>>
        ELSE LET lo == CHOOSE i \in keep : \A j \in keep : i <= j
                 hi == CHOOSE i \in keep : \A j \in keep : i >= j
             IN  SubSeq(s, lo, hi)

\* a result.raw that is not a text (None)
NoneRaw == <<"None">>

\* line 30, before the try: len(text) raises TypeError when text is not a text
clean_llm_output_raises(text) == text = NoneRaw

\* worker.py clean_llm_output, with a variant that only knows the bare fence
clean_llm_output_bare(text) ==
    LET t1 == Strip(text)
        t2 == IF StartsWith(t1, Fence) THEN DropFirst(t1, FenceLen) ELSE t1
        t3 == IF EndsWith(t2, Fence) THEN DropLast(t2, FenceLen) ELSE t2
    IN  Strip(t3)

\* variant of clean_llm_output without the final strip
clean_llm_output_nostrip(text) ==
    LET t1 == Strip(text)
        t2 == IF StartsWith(t1, FenceJson) THEN DropFirst(t1, FenceJsonLen)
              ELSE IF StartsWith(t1, Fence) THEN DropFirst(t1, FenceLen)
              ELSE t1
    IN  IF EndsWith(t2, Fence) THEN DropLast(t2, FenceLen) ELSE t2

clean_llm_output(text) ==
    LET t1 == Strip(text)
        t2 == IF StartsWith(t1, FenceJson) THEN DropFirst(t1, FenceJsonLen)
              ELSE IF StartsWith(t1, Fence) THEN DropFirst(t1, FenceLen)
              ELSE t1
        t3 == IF EndsWith(t2, Fence) THEN DropLast(t2, FenceLen) ELSE t2
    IN  Strip(t3)

\* ------------------------------------------------------ model output (JSON)
\* digit strings, which pydantic's lax mode coerces to int
DigitVal == [d1 |-> 1, d2 |-> 2]
IsNumStr(v) == v.t = "str" /\ Len(v.s) = 1 /\ v.s[1] \in DOMAIN DigitVal

Issue(type, line) ==
    JObj([type |-> JStr(<<type>>), line |-> line,
          description |-> JStr(<<"d">>), suggestion |-> JStr(<<"s">>)])
File(name, issues) == JObj([name |-> JStr(<<name>>), issues |-> JArr(issues)])
Summary(a, b, c) ==
    JObj([total_files |-> JInt(a), total_issues |-> JInt(b), critical_issues |-> JInt(c)])

\* an issue and a summary that lack one key
IssueWithout(k) ==
    JObj([x \in {"type", "line", "description", "suggestion"} \ {k} |->
             Issue("bug", JInt(1)).o[x]])
SummaryWithout(k) ==
    JObj([x \in {"total_files", "total_issues", "critical_issues"} \ {k} |-> JInt(1)])

\* The JSON documents the model may produce, by name.  A text holds a
\* document as the one element that names it.
DocValue ==
    [ D_empty    |-> JObj([files |-> JArr(<<>>), summary |-> Summary(0, 0, 0)]),
      D_two      |-> JObj([files |-> JArr(<<File("a", <<Issue("bug", JInt(1))>>),
                                            File("b", <<>>)>>),
                           summary |-> Summary(2, 1, 1)]),
      D_extra    |-> JObj([files |-> JArr(<<File("b", <<Issue("style", JStr(<<"d2">>))>>),
                                            File("a", <<>>)>>),
                           summary |-> Summary(2, 1, 0),
                           error |-> JStr(<<"e">>)]),
      D_nofiles  |-> JObj([summary |-> Summary(0, 0, 0)]),
      D_noissues |-> JObj([files |-> JArr(<<JObj([name |-> JStr(<<"a">>)])>>),
                           summary |-> Summary(1, 0, 0)]),
      D_negline  |-> JObj([files |-> JArr(<<File("a", <<Issue("bug", JInt(-1))>>)>>),
                           summary |-> Summary(1, 1, 1)]),
      D_negcount |-> JObj([files |-> JArr(<<>>), summary |-> Summary(-1, 0, 0)]),
      D_badline  |-> JObj([files |-> JArr(<<File("a", <<Issue("bug", JStr(<<"x">>))>>)>>),
                           summary |-> Summary(1, 1, 1)]),
      D_path     |-> JObj([files |-> JArr(<<JObj([path |-> JStr(<<"a">>),
                                                  issues |-> JArr(<<>>)])>>),
                           summary |-> Summary(1, 0, 0)]),
      D_nosum    |-> JObj([files |-> JArr(<<>>)]),
      D_emptyobj |-> JObj(<<>>),
      D_zero     |-> JInt(0),
      D_seven    |-> JInt(7),
      D_null     |-> JNull,
      D_long     |-> JArr([i \in 1..(SnippetLen + 1) |-> JInt(0)]),
      D_notype   |-> JObj([files |-> JArr(<<File("a", <<IssueWithout("type")>>)>>),
                           summary |-> Summary(1, 1, 1)]),
      D_noline   |-> JObj([files |-> JArr(<<File("a", <<IssueWithout("line")>>)>>),
                           summary |-> Summary(1, 1, 1)]),
      D_nodesc   |-> JObj([files |-> JArr(<<File("a", <<IssueWithout("description")>>)>>),
                           summary |-> Summary(1, 1, 1)]),
      D_nosugg   |-> JObj([files |-> JArr(<<File("a", <<IssueWithout("suggestion")>>)>>),
                           summary |-> Summary(1, 1, 1)]),
      D_nototal  |-> JObj([files |-> JArr(<<>>), summary |-> SummaryWithout("total_files")]),
      D_nocount  |-> JObj([files |-> JArr(<<>>), summary |-> SummaryWithout("total_issues")]),
      D_nocrit   |-> JObj([files |-> JArr(<<>>),
                           summary |-> SummaryWithout("critical_issues")]) ]

\* a document nested deeper than the interpreter's recursion limit
DeepDoc == "D_deep"
DocNames == DOMAIN DocValue

\* json.loads: strict parsing of the whole text
json_loads(text) ==
    IF Len(text) = 1 /\ text[1] \in DocNames
        THEN [ok |-> TRUE, value |-> DocValue[text[1]]]
    ELSE IF Len(text) = 1 /\ text[1] = DeepDoc
        THEN [ok |-> FALSE, exc |-> "RecursionError"]
    ELSE [ok |-> FALSE, exc |-> "JSONDecodeError"]

\* ------------------------------------------------- models.py (pydantic v2)
IntOk(v) == v.t = "int" \/ IsNumStr(v)
IntOf(v) == IF v.t = "int" THEN v.i ELSE DigitVal[v.s[1]]
StrOk(v) == v.t = "str"
HasStr(o, k) == k \in DOMAIN o /\ StrOk(o[k])
HasInt(o, k) == k \in DOMAIN o /\ IntOk(o[k])
HasIntGe0(o, k) == HasInt(o, k) /\ IntOf(o[k]) >= 0

\* AnalysisIssue: type, line, description, suggestion all required; line: int
valid_AnalysisIssue(v) ==
    /\ v.t = "obj"
    /\ HasStr(v.o, "type")
    /\ HasInt(v.o, "line")
    /\ HasStr(v.o, "description")
    /\ HasStr(v.o, "suggestion")

dump_AnalysisIssue(v) ==
    JObj([type |-> v.o["type"], line |-> JInt(IntOf(v.o["line"])),
          description |-> v.o["description"], suggestion |-> v.o["suggestion"]])

\* FileAnalysis: name required, issues defaults to the empty list
issues_of(v) == IF "issues" \in DOMAIN v.o THEN v.o["issues"] ELSE JArr(<<>>)

valid_FileAnalysis(v) ==
    /\ v.t = "obj"
    /\ HasStr(v.o, "name")
    /\ issues_of(v).t = "arr"
    /\ \A i \in 1..Len(issues_of(v).a) : valid_AnalysisIssue(issues_of(v).a[i])

dump_FileAnalysis(v) ==
    JObj([name |-> v.o["name"],
          issues |-> JArr([i \in 1..Len(issues_of(v).a) |->
                              dump_AnalysisIssue(issues_of(v).a[i])])])

\* AnalysisSummary: three required ints, each ge=0
valid_AnalysisSummary(v) ==
    /\ v.t = "obj"
    /\ HasIntGe0(v.o, "total_files")
    /\ HasIntGe0(v.o, "total_issues")
    /\ HasIntGe0(v.o, "critical_issues")

dump_AnalysisSummary(v) ==
    JObj([total_files |-> JInt(IntOf(v.o["total_files"])),
          total_issues |-> JInt(IntOf(v.o["total_issues"])),
          critical_issues |-> JInt(IntOf(v.o["critical_issues"]))])

\* variant of files_of for a files field declared required
files_of_required(v) == IF "files" \in DOMAIN v.o THEN v.o["files"] ELSE JNull

\* FinalReport: files defaults to the empty list, summary required
files_of(v) == IF "files" \in DOMAIN v.o THEN v.o["files"] ELSE JArr(<<>>)

\* FinalReport.model_validate(parsed_json) does not raise ValidationError
model_validate_ok(v) ==
    /\ v.t = "obj"
    /\ files_of(v).t = "arr"
    /\ \A i \in 1..Len(files_of(v).a) : valid_FileAnalysis(files_of(v).a[i])
    /\ "summary" \in DOMAIN v.o
    /\ valid_AnalysisSummary(v.o["summary"])

\* validated_report.model_dump(): only the declared fields, coerced
model_dump(v) ==
    [files |-> JArr([i \in 1..Len(files_of(v).a) |-> dump_FileAnalysis(files_of(v).a[i])]),
     summary |-> dump_AnalysisSummary(v.o["summary"])]

\* ----------------------------------------- worker.py result classification
ParseErrorMsg == JStr(<<"Failed to parse AI response as JSON. Error: ", "JSONDecodeError">>)
ValidationErrorMsg ==
    JStr(<<"AI response failed Pydantic validation. Error: ", "ValidationError">>)
UnexpectedErrorMsg(kind) ==
    JStr(<<"Unexpected error during parsing and validation: ", kind>>)

\* variant of parse_and_validate_result in which a ValidationError falls
\* through to the generic except clause
parse_and_validate_result_reraise(raw_result) ==
    LET cleaned_result == clean_llm_output(raw_result)
        parsed == json_loads(cleaned_result)
    IN  IF ~parsed.ok /\ parsed.exc = "JSONDecodeError"
            THEN [error |-> ParseErrorMsg,
                  raw_response |-> JStr(TakeFirst(cleaned_result, SnippetLen))]
        ELSE IF ~parsed.ok
            THEN [error |-> UnexpectedErrorMsg(parsed.exc),
                  exception_type |-> JStr(<<parsed.exc>>)]
        ELSE IF model_validate_ok(parsed.value)
            THEN model_dump(parsed.value)
        ELSE [error |-> UnexpectedErrorMsg("ValidationError"),
              exception_type |-> JStr(<<"ValidationError">>)]

\* variant of parse_and_validate_result that returns the parsed value itself
\* instead of the dumped model
parse_and_validate_result_nodump(raw_result) ==
    LET cleaned_result == clean_llm_output(raw_result)
        parsed == json_loads(cleaned_result)
    IN  IF ~parsed.ok /\ parsed.exc = "JSONDecodeError"
            THEN [error |-> ParseErrorMsg,
                  raw_response |-> JStr(TakeFirst(cleaned_result, SnippetLen))]
        ELSE IF ~parsed.ok
            THEN [error |-> UnexpectedErrorMsg(parsed.exc),
                  exception_type |-> JStr(<<parsed.exc>>)]
        ELSE IF model_validate_ok(parsed.value)
            THEN parsed.value.o
        ELSE [error |-> ValidationErrorMsg, raw_response |-> parsed.value]

\* variant of parse_and_validate_result that returns the whole cleaned text
\* as the snippet
parse_and_validate_result_fullsnippet(raw_result) ==
    LET cleaned_result == clean_llm_output(raw_result)
        parsed == json_loads(cleaned_result)
    IN  IF ~parsed.ok /\ parsed.exc = "JSONDecodeError"
            THEN [error |-> ParseErrorMsg, raw_response |-> JStr(cleaned_result)]
        ELSE IF ~parsed.ok
            THEN [error |-> UnexpectedErrorMsg(parsed.exc),
                  exception_type |-> JStr(<<parsed.exc>>)]
        ELSE IF model_validate_ok(parsed.value)
            THEN model_dump(parsed.value)
        ELSE [error |-> ValidationErrorMsg, raw_response |-> parsed.value]

\* variant of parse_and_validate_result that cuts a parsed list to the
\* snippet length as well
parse_and_validate_result_cutvalue(raw_result) ==
    LET cleaned_result == clean_llm_output(raw_result)
        parsed == json_loads(cleaned_result)
    IN  IF ~parsed.ok /\ parsed.exc = "JSONDecodeError"
            THEN [error |-> ParseErrorMsg,
                  raw_response |-> JStr(TakeFirst(cleaned_result, SnippetLen))]
        ELSE IF ~parsed.ok
            THEN [error |-> UnexpectedErrorMsg(parsed.exc),
                  exception_type |-> JStr(<<parsed.exc>>)]
        ELSE IF model_validate_ok(parsed.value)
            THEN model_dump(parsed.value)
        ELSE [error |-> ValidationErrorMsg,
              raw_response |-> IF parsed.value.t = "arr"
                                  THEN JArr(TakeFirst(parsed.value.a, SnippetLen))
                                  ELSE parsed.value]

\* line 58, before the try: len(raw_result) raises TypeError when raw_result
\* is not a text
parse_and_validate_result_raises(raw_result) == raw_result = NoneRaw

parse_and_validate_result(raw_result) ==
    LET cleaned_result == clean_llm_output(raw_result)
        parsed == json_loads(cleaned_result)
    IN  IF ~parsed.ok /\ parsed.exc = "JSONDecodeError"
            THEN [error |-> ParseErrorMsg,
                  raw_response |-> JStr(TakeFirst(cleaned_result, SnippetLen))]
        ELSE IF ~parsed.ok
            THEN [error |-> UnexpectedErrorMsg(parsed.exc),
                  exception_type |-> JStr(<<parsed.exc>>)]
        ELSE IF model_validate_ok(parsed.value)
            THEN model_dump(parsed.value)
        ELSE [error |-> ValidationErrorMsg, raw_response |-> parsed.value]

\* the three variants of the payload returned by analyze_pr_task
IsCompleted(p) == DOMAIN p = {"files", "summary"}
IsLogicalFailure(p) ==
    {"error", "raw_response"} \subseteq DOMAIN p /\ "exception_type" \notin DOMAIN p
IsExceptionFailure(p) ==
    {"error", "exception_type"} \subseteq DOMAIN p /\ "raw_response" \notin DOMAIN p

\* ------------------------------------------------------------ request data
GH == "https://github.com/"
RepoUrls ==
    { <<>>, <<" ">>, <<"http://gitlab.com/", "o", "/", "r">>,
      <<GH>>, <<GH, "o">>, <<GH, "o", "/", "r">>, <<GH, "o", "/", "r", "/">> }
PrNumbers == {-1, 0, 1}
PrText(n) == CASE n = 1 -> "1" [] n = 0 -> "0" [] OTHER -> "-1"
Tokens == {"none", "tok"}
Requests == [repo_url : RepoUrls, pr_number : PrNumbers, github_token : Tokens]
\* request bodies that lack a required field, or carry it with the wrong type
\* (a field of the wrong type is named by its type: repo_url_int, pr_number_str)
InvalidPayloads ==
    { [github_token |-> "none"],
      [repo_url |-> <<GH, "o", "/", "r">>, github_token |-> "none"],
      [pr_number |-> 1, github_token |-> "none"],
      [repo_url_int |-> 123, pr_number_str |-> "not_a_number", github_token |-> "none"],
      [repo_url |-> <<GH, "o", "/", "r">>, pr_number_str |-> "not_a_number",
       github_token |-> "tok"] }
Payloads == Requests \cup InvalidPayloads
\* the requests of the specification with several jobs
CoreRequests ==
    [repo_url : {<<>>, <<"http://gitlab.com/", "o", "/", "r">>, <<GH, "o", "/", "r">>},
     pr_number : {0, 1}, github_token : Tokens]

TaskIds == 1..MaxJobs
\* an id no submission ever issues
UnknownId == 0
QueryIds == TaskIds \cup {UnknownId}

\* texts the crew may return as result.raw
Wrapped(pre, doc, post) == pre \o <<doc>> \o post
\* the ways a document is wrapped: bare, in a json fence, in a bare fence,
\* in whitespace
Wrappings(d) ==
    { <<d>>,
      Wrapped(FenceJson \o <<"\n">>, d, <<"\n">> \o Fence),
      Wrapped(Fence \o <<"\n">>, d, <<"\n">> \o Fence),
      Wrapped(<<" ", "\n">>, d, <<"\n">>) }
RawOutputs ==
    UNION { Wrappings(d) : d \in DocNames }
    \cup { Wrapped(<<"s", "o", " ">>, "D_two", <<>>),
           <<"n", "o", "t", " ", "j", "s", "o", "n">>,
           <<>>,
           <<" ", "\n">>,
           Fence \o Fence,
           FenceJson,
           <<DeepDoc>>,
           NoneRaw }

\* model outputs put together from pieces: a fence, the tags json and py,
\* a line break, a letter, a document
Chunks == { Fence, <<"j", "s", "o", "n">>, <<"p", "y">>, <<"\n">>, <<"x">>, <<"D_empty">> }
RECURSIVE ChunkTexts(_)
ChunkTexts(n) ==
    IF n = 0 THEN {<<>>}
    ELSE ChunkTexts(n - 1) \cup {t \o c : t \in ChunkTexts(n - 1), c \in Chunks}
\* a text longer than the snippet, bare and in a json fence
LongText == [i \in 1..(SnippetLen + 1) |-> "x"]
LongFenced == FenceJson \o <<"\n">> \o LongText \o <<"\n">> \o Fence
TextInputs == ChunkTexts(MaxChunks) \cup {LongText, LongFenced, NoneRaw}
\* the texts of the specification with several jobs
CoreOutputs ==
    { Wrapped(FenceJson \o <<"\n">>, "D_two", <<"\n">> \o Fence),
      <<"D_emptyobj">> }

\* exceptions: the class name and str(e)
Exc(kind, text) == [kind |-> kind, text |-> text]
NoExc == Exc("none", "")

\* ------------------------------------------------------ github_service.py
RemoveAll(s, tok) == SelectSeq(s, LAMBDA x : x # tok)
StripSlash(s) ==
    LET keep == {i \in 1..Len(s) : s[i] # "/"}
    IN  IF keep = {} THEN <<>>
        ELSE LET lo == CHOOSE i \in keep : \A j \in keep : i <= j
                 hi == CHOOSE i \in keep : \A j \in keep : i >= j
             IN  SubSeq(s, lo, hi)
\* len(path.split("/"))
SplitCount(s) == 1 + Cardinality({i \in 1..Len(s) : s[i] = "/"})

\* extract_repo_info_from_url returns (TRUE) or raises GithubAPIError (FALSE)
extract_repo_info_from_url(repo_url) ==
    /\ StartsWith(repo_url, <<GH>>)
    /\ SplitCount(StripSlash(RemoveAll(repo_url, GH))) >= 2

\* what the GitHub REST calls inside get_pr_context do
GithubOutcomes == {"ok", "RequestException", "KeyError"}
CoreGithubOutcomes == {"ok", "RequestException"}

\* get_pr_context: every exception leaves it as a GithubAPIError
get_pr_context(repo_url, github) ==
    IF ~extract_repo_info_from_url(repo_url)
        THEN Exc("GithubAPIError", "Failed to fetch PR context: Invalid GitHub URL format")
    ELSE IF github = "RequestException"
        THEN Exc("GithubAPIError", "Failed to fetch PR context: Failed to fetch PR metadata")
    ELSE IF github = "KeyError"
        THEN Exc("GithubAPIError", "Failed to fetch PR context: 'status'")
    ELSE NoExc

\* ---------------------------------------------------------------- agents.py
\* what building the agent, task and crew does after the context was fetched
CrewBuildOutcomes == {"ok", "ValueError"}

\* create_code_review_crew re-raises whatever it catches
create_code_review_crew(repo_url, github, build) ==
    IF get_pr_context(repo_url, github) # NoExc THEN get_pr_context(repo_url, github)
    ELSE IF build # "ok" THEN Exc(build, "agent configuration")
    ELSE NoExc

\* the Exceptions review_crew.kickoff() may raise
KickoffExceptions == {"TimeoutError", "RateLimitError"}
CoreKickoffExceptions == {"TimeoutError"}

\* -------------------------------------------------------------------- state
VARIABLES
    nextId,     \* the next task id send_task will issue
    broker,     \* task messages published and not yet picked up
    backend,    \* the result backend: task id -> [state, result]
    pc,         \* position of analyze_pr_task, per task id
    args,       \* repo_url and pr_number of the running task
    raw,        \* result.raw of the running task once kickoff has returned
    caught,     \* the exception caught at line 147 and the call that raised it
    resp        \* the HTTP response sent in this step, NoResp in a worker step

vars == <<nextId, broker, backend, pc, args, raw, caught, resp>>

StoreStates == {"PENDING", "STARTED", "PROGRESS", "SUCCESS", "FAILURE"}
Terminal == {"SUCCESS", "FAILURE"}

\* the backend with the entry of task t replaced
StorePut(b, t, state, result) ==
    [x \in DOMAIN b \cup {t} |-> IF x = t THEN [state |-> state, result |-> result] ELSE b[x]]

\* AsyncResult(task_id).state: an id without an entry reads as PENDING
AsyncResult_state(b, t) == IF t \in DOMAIN b THEN b[t].state ELSE "PENDING"

\* variant of update_state that records the step under a state of its own
update_state_custom(b, t, meta) == StorePut(b, t, "VALIDATING", [status |-> JStr(<<meta>>)])

\* self.update_state(state='PROGRESS', meta={'status': ...})
update_state(b, t, meta) == StorePut(b, t, "PROGRESS", [status |-> JStr(<<meta>>)])

\* variant of the except branch that reports the generic class name
task_error_result_generic(a, e) ==
    [error |-> JStr(<<"Task failed for PR ">> \o a.repo_url
                     \o <<"#", PrText(a.pr_number), ": ", e.text>>),
     exception_type |-> JStr(<<"Exception">>)]

\* the except branch of analyze_pr_task
task_error_result(a, e) ==
    [error |-> JStr(<<"Task failed for PR ">> \o a.repo_url
                     \o <<"#", PrText(a.pr_number), ": ", e.text>>),
     exception_type |-> JStr(<<e.kind>>)]

\* Celery stores the value the task returned
mark_as_done(b, t, retval) == StorePut(b, t, "SUCCESS", retval)
\* Celery stores the failure of a task whose process was lost
mark_as_failure(b, t, e) ==
    StorePut(b, t, "FAILURE", [exc_type |-> JStr(<<e.kind>>), exc_message |-> JStr(<<e.text>>)])

WorkerLost == Exc("WorkerLostError", "Worker exited prematurely")

NoArgs == [repo_url |-> <<>>, pr_number |-> 0]
NoCaught == [origin |-> "none", exc |-> NoExc]
NoResp == [op |-> "none", task_id |-> UnknownId, code |-> 0, body |-> [detail |-> "none"]]

Init ==
    /\ nextId = 1
    /\ broker = {}
    /\ backend = <<>>
    /\ pc = [t \in TaskIds |-> "none"]
    /\ args = [t \in TaskIds |-> NoArgs]
    /\ raw = [t \in TaskIds |-> <<>>]
    /\ caught = [t \in TaskIds |-> NoCaught]
    /\ resp = NoResp

\* ------------------------------------------------------- main.py: submission
\* AnalysisRequest: repo_url: str and pr_number: int are required, pr_number
\* has gt=0
AnalysisRequest_ok(req) ==
    /\ {"repo_url", "pr_number"} \subseteq DOMAIN req
    /\ req.pr_number > 0

\* validate_analysis_request: 0 when it returns, else the HTTP status raised
validate_analysis_request(req) ==
    IF Len(req.repo_url) = 0 \/ Len(Strip(req.repo_url)) = 0 THEN 400
    ELSE IF ~StartsWith(req.repo_url, <<GH>>) THEN 400
    ELSE IF req.pr_number <= 0 THEN 400
    ELSE 0

Reject(op, code, detail) ==
    /\ resp' = [op |-> op, task_id |-> UnknownId, code |-> code, body |-> [detail |-> detail]]
    /\ UNCHANGED <<nextId, broker, backend, pc, args, raw, caught>>

\* variant of submit_analysis that queues the task before it checks the
\* request
submit_analysis_eager(req, sendOk, cap) ==
    IF ~AnalysisRequest_ok(req)
        THEN Reject("submit", 422, "validation error")
    ELSE IF ~sendOk
        THEN Reject("submit", 500, "Failed to queue task")
    ELSE
        /\ nextId <= cap
        /\ broker' = broker \cup {[id |-> nextId,
                                   args |-> [repo_url |-> req.repo_url,
                                             pr_number |-> req.pr_number]]}
        /\ nextId' = nextId + 1
        /\ pc' = [pc EXCEPT ![nextId] = "queued"]
        /\ resp' = IF validate_analysis_request(req) # 0
                      THEN [op |-> "submit", task_id |-> UnknownId,
                            code |-> validate_analysis_request(req),
                            body |-> [detail |-> "bad request"]]
                      ELSE [op |-> "submit", task_id |-> nextId, code |-> 202,
                            body |-> [task_id |-> nextId, status |-> "PENDING"]]
        /\ UNCHANGED <<backend, args, raw, caught>>

\* variant of submit_analysis whose task ids repeat (the counter is not
\* advanced)
submit_analysis_sameid(req, sendOk, cap) ==
    IF ~AnalysisRequest_ok(req)
        THEN Reject("submit", 422, "validation error")
    ELSE IF validate_analysis_request(req) # 0
        THEN Reject("submit", validate_analysis_request(req), "bad request")
    ELSE IF ~sendOk
        THEN Reject("submit", 500, "Failed to queue task")
    ELSE
        /\ nextId <= cap
        /\ broker' = broker \cup {[id |-> nextId,
                                   args |-> [repo_url |-> req.repo_url,
                                             pr_number |-> req.pr_number]]}
        /\ nextId' = nextId
        /\ pc' = [pc EXCEPT ![nextId] = "queued"]
        /\ resp' = [op |-> "submit", task_id |-> nextId, code |-> 202,
                    body |-> [task_id |-> nextId, status |-> "PENDING"]]
        /\ UNCHANGED <<backend, args, raw, caught>>

\* variant of submit_analysis that hands the request's token to the task
submit_analysis_withtoken(req, sendOk, cap) ==
    IF ~AnalysisRequest_ok(req)
        THEN Reject("submit", 422, "validation error")
    ELSE IF validate_analysis_request(req) # 0
        THEN Reject("submit", validate_analysis_request(req), "bad request")
    ELSE IF ~sendOk
        THEN Reject("submit", 500, "Failed to queue task")
    ELSE
        /\ nextId <= cap
        /\ broker' = broker \cup {[id |-> nextId,
                                   args |-> [repo_url |-> req.repo_url,
                                             pr_number |-> req.pr_number,
                                             github_token |-> req.github_token]]}
        /\ nextId' = nextId + 1
        /\ pc' = [pc EXCEPT ![nextId] = "queued"]
        /\ resp' = [op |-> "submit", task_id |-> nextId, code |-> 202,
                    body |-> [task_id |-> nextId, status |-> "PENDING"]]
        /\ UNCHANGED <<backend, args, raw, caught>>

\* POST /analyze-pr; at most cap task ids are issued
submit_analysis(req, sendOk, cap) ==
    IF ~AnalysisRequest_ok(req)
        THEN Reject("submit", 422, "validation error")
    ELSE IF validate_analysis_request(req) # 0
        THEN Reject("submit", validate_analysis_request(req), "bad request")
    ELSE IF ~sendOk
        THEN Reject("submit", 500, "Failed to queue task")
    ELSE \* queue_analysis_task
        /\ nextId <= cap
        /\ broker' = broker \cup {[id |-> nextId,
                                   args |-> [repo_url |-> req.repo_url,
                                             pr_number |-> req.pr_number]]}
        /\ nextId' = nextId + 1
        /\ pc' = [pc EXCEPT ![nextId] = "queued"]
        /\ resp' = [op |-> "submit", task_id |-> nextId, code |-> 202,
                    body |-> [task_id |-> nextId, status |-> "PENDING"]]
        /\ UNCHANGED <<backend, args, raw, caught>>

\* ------------------------------------------------- worker.py: analyze_pr_task
\* a worker takes the message; task_track_started=True records STARTED
task_start(t) ==
    /\ \E m \in broker :
        /\ m.id = t
        /\ broker' = broker \ {m}
        /\ args' = [args EXCEPT ![t] = m.args]
    /\ backend' = StorePut(backend, t, "STARTED", [pid |-> JInt(1)])
    /\ pc' = [pc EXCEPT ![t] = "init"]
    /\ resp' = NoResp
    /\ UNCHANGED <<nextId, raw, caught>>

\* the task ends: its frame (repo_url, pr_number, result, e) is gone
task_end(t) ==
    /\ pc' = [pc EXCEPT ![t] = "done"]
    /\ args' = [args EXCEPT ![t] = NoArgs]
    /\ raw' = [raw EXCEPT ![t] = <<>>]
    /\ caught' = [caught EXCEPT ![t] = NoCaught]
    /\ resp' = NoResp
    /\ UNCHANGED <<nextId, broker>>

\* an Exception raised by the call `origin` reaches the except clause, line 147
raise_to_handler(t, origin, e) ==
    /\ caught' = [caught EXCEPT ![t] = [origin |-> origin, exc |-> e]]
    /\ pc' = [pc EXCEPT ![t] = "except"]
    /\ resp' = NoResp
    /\ UNCHANGED <<nextId, broker, backend, args, raw>>

\* the worker process is lost during a collaborator call
task_lost(t) ==
    /\ backend' = mark_as_failure(backend, t, WorkerLost)
    /\ task_end(t)

\* one self.update_state call (lines 119, 125, 131)
progress_step(t, at, meta, next, storeOk) ==
    /\ pc[t] = at
    /\ IF storeOk
          THEN /\ backend' = update_state(backend, t, meta)
               /\ pc' = [pc EXCEPT ![t] = next]
               /\ resp' = NoResp
               /\ UNCHANGED <<nextId, broker, args, raw, caught>>
          ELSE raise_to_handler(t, "update_state",
                                Exc("ConnectionError", "store unreachable"))

step_initializing(t, storeOk) ==
    progress_step(t, "init", "Initializing multi-agent crew...", "create", storeOk)

step_running(t, storeOk) ==
    progress_step(t, "running", "Running specialized agent analysis...", "kickoff", storeOk)

step_validating(t, storeOk) ==
    progress_step(t, "validating", "Validating final report...", "parse", storeOk)

\* review_crew = create_code_review_crew(repo_url, pr_number)
step_create_crew(t, github, build, lost) ==
    /\ pc[t] = "create"
    /\ IF lost THEN task_lost(t)
       ELSE IF create_code_review_crew(args[t].repo_url, github, build) # NoExc
          THEN raise_to_handler(t, "create_code_review_crew",
                                create_code_review_crew(args[t].repo_url, github, build))
       ELSE /\ pc' = [pc EXCEPT ![t] = "running"]
            /\ resp' = NoResp
            /\ UNCHANGED <<nextId, broker, backend, args, raw, caught>>

\* result = review_crew.kickoff(): returns a text
step_kickoff(t, text) ==
    /\ pc[t] = "kickoff"
    /\ raw' = [raw EXCEPT ![t] = text]
    /\ pc' = [pc EXCEPT ![t] = "validating"]
    /\ resp' = NoResp
    /\ UNCHANGED <<nextId, broker, backend, args, caught>>

\* result = review_crew.kickoff(): raises, or the process is lost
step_kickoff_fails(t, kind, lost) ==
    /\ pc[t] = "kickoff"
    /\ IF lost THEN task_lost(t)
       ELSE raise_to_handler(t, "kickoff", Exc(kind, "crew failed"))

\* final_result = parse_and_validate_result(result.raw); return final_result
step_parse(t) ==
    /\ pc[t] = "parse"
    /\ IF parse_and_validate_result_raises(raw[t])
          THEN raise_to_handler(t, "parse_and_validate_result",
                                Exc("TypeError", "object of type 'NoneType' has no len()"))
          ELSE /\ backend' = mark_as_done(backend, t, parse_and_validate_result(raw[t]))
               /\ task_end(t)

\* variant of step_except whose handler re-raises: Celery records the failure
step_except_reraise(t) ==
    /\ pc[t] = "except"
    /\ backend' = mark_as_failure(backend, t, caught[t].exc)
    /\ task_end(t)

\* except Exception as e: return {"error": ..., "exception_type": ...}
step_except(t) ==
    /\ pc[t] = "except"
    /\ backend' = mark_as_done(backend, t, task_error_result(args[t], caught[t].exc))
    /\ task_end(t)

\* --------------------------------------------- worker.py: get_task_status
\* str(task_result.info) of a failed task
FailureText(info) == JStr(info["exc_message"].s)

\* variant of the read that deletes the entry it has read (forget)
backend_after_read_forget(b, t) == [x \in DOMAIN b \ {t} |-> b[x]]

\* the backend after AsyncResult(...).state / .get() / .info: reads leave it alone
backend_after_read(b, t) == b

\* variant of get_task_status that reports a failed store read as a job state
get_task_status_silent(b, t, readOk) ==
    IF ~readOk
        THEN [task_id |-> t, status |-> "PENDING", result |-> JNull]
    ELSE [task_id |-> t,
          status |-> AsyncResult_state(b, t),
          result |-> CASE AsyncResult_state(b, t) = "SUCCESS" -> JObj(b[t].result)
                       [] AsyncResult_state(b, t) = "FAILURE" -> FailureText(b[t].result)
                       [] AsyncResult_state(b, t) = "PROGRESS" -> JObj(b[t].result)
                       [] OTHER -> JNull]

\* get_task_status; readOk = FALSE when reading the store raises
get_task_status(b, t, readOk) ==
    IF ~readOk
        THEN [task_id |-> t, status |-> "ERROR",
              result |-> JStr(<<"Error retrieving task status">>)]
    ELSE [task_id |-> t,
          status |-> AsyncResult_state(b, t),
          result |-> CASE AsyncResult_state(b, t) = "SUCCESS" -> JObj(b[t].result)
                       [] AsyncResult_state(b, t) = "FAILURE" -> FailureText(b[t].result)
                       [] AsyncResult_state(b, t) = "PROGRESS" -> JObj(b[t].result)
                       [] OTHER -> JNull]

\* --------------------------------------------------- main.py: the endpoints
Http(code, body) == [code |-> code, body |-> body]
InternalError(detail) == Http(500, [detail |-> detail])

\* format_success_response: SuccessResultResponse validates results as a FinalReport
format_success_response(t, result_data) ==
    IF model_validate_ok(JObj(result_data))
        THEN Http(200, [task_id |-> t, status |-> "COMPLETED",
                        results |-> model_dump(JObj(result_data))])
    ELSE InternalError("Failed to retrieve analysis results")

\* format_error_response
format_error_response(t, result_data) ==
    Http(200, [task_id |-> t, status |-> "FAILED",
               error |-> result_data["error"],
               details |-> IF Truthy(DictGet(result_data, "raw_response"))
                              THEN DictGet(result_data, "raw_response")
                              ELSE DictGet(result_data, "exception_type")])

\* variant of get_analysis_results without the check for the 'error' key
get_analysis_results_nocheck(b, t, readOk) ==
    LET status_info == get_task_status(b, t, readOk)
    IN  IF status_info.status = "SUCCESS"
            THEN Http(200, [task_id |-> t, status |-> "COMPLETED",
                            results |-> status_info.result.o])
        ELSE IF status_info.status = "FAILURE"
            THEN Http(200, [task_id |-> t, status |-> "FAILED",
                            error |-> JStr(<<"An unexpected error occurred in the task.">>),
                            details |-> status_info.result])
        ELSE Http(200, [task_id |-> t, status |-> status_info.status,
                        details |-> status_info.result])

\* variant of get_analysis_results that answers 404 for an id without an entry
get_analysis_results_notfound(b, t, readOk) ==
    LET status_info == get_task_status(b, t, readOk)
    IN  IF status_info.status = "SUCCESS"
            THEN IF "error" \in DOMAIN status_info.result.o
                    THEN format_error_response(t, status_info.result.o)
                    ELSE format_success_response(t, status_info.result.o)
        ELSE IF status_info.status = "FAILURE"
            THEN Http(200, [task_id |-> t, status |-> "FAILED",
                            error |-> JStr(<<"An unexpected error occurred in the task.">>),
                            details |-> status_info.result])
        ELSE IF status_info.status = "PENDING"
            THEN Http(404, [detail |-> "Task not found"])
        ELSE Http(200, [task_id |-> t, status |-> status_info.status,
                        details |-> status_info.result])

\* variant of get_analysis_results that gives up on a job still in progress
get_analysis_results_giveup(b, t, readOk) ==
    LET status_info == get_task_status(b, t, readOk)
    IN  IF status_info.status = "SUCCESS"
            THEN IF "error" \in DOMAIN status_info.result.o
                    THEN format_error_response(t, status_info.result.o)
                    ELSE format_success_response(t, status_info.result.o)
        ELSE IF status_info.status \in {"FAILURE", "PROGRESS"}
            THEN Http(200, [task_id |-> t, status |-> "FAILED",
                            error |-> JStr(<<"An unexpected error occurred in the task.">>),
                            details |-> JNull])
        ELSE Http(200, [task_id |-> t, status |-> status_info.status,
                        details |-> status_info.result])

\* GET /results/{task_id}: the response
get_analysis_results(b, t, readOk) ==
    LET status_info == get_task_status(b, t, readOk)
    IN  IF status_info.status = "SUCCESS"
            THEN IF "error" \in DOMAIN status_info.result.o
                    THEN format_error_response(t, status_info.result.o)
                    ELSE format_success_response(t, status_info.result.o)
        ELSE IF status_info.status = "FAILURE"
            THEN Http(200, [task_id |-> t, status |-> "FAILED",
                            error |-> JStr(<<"An unexpected error occurred in the task.">>),
                            details |-> status_info.result])
        ELSE Http(200, [task_id |-> t, status |-> status_info.status,
                        details |-> status_info.result])

\* variant of check_task_status that turns a failed store read into a 500
check_task_status_strict(b, t, readOk) ==
    IF get_task_status(b, t, readOk).status = "ERROR"
        THEN InternalError("Failed to retrieve task status")
    ELSE Http(200, [task_id |-> t, status |-> get_task_status(b, t, readOk).status])

\* GET /status/{task_id}: the response
check_task_status(b, t, readOk) ==
    Http(200, [task_id |-> t, status |-> get_task_status(b, t, readOk).status])

Respond(op, t, r) == resp' = [op |-> op, task_id |-> t, code |-> r.code, body |-> r.body]

\* GET /status/{task_id}
GetStatus(t, readOk) ==
    /\ Respond("status", t, check_task_status(backend, t, readOk))
    /\ backend' = backend_after_read(backend, t)
    /\ UNCHANGED <<nextId, broker, pc, args, raw, caught>>

\* GET /results/{task_id}
GetResults(t, readOk) ==
    /\ Respond("results", t, get_analysis_results(backend, t, readOk))
    /\ backend' = backend_after_read(backend, t)
    /\ UNCHANGED <<nextId, broker, pc, args, raw, caught>>

\* ------------------------------------------------------------ specification
\* several jobs, the core inputs
Next ==
    \/ \E req \in CoreRequests, sendOk \in BOOLEAN : submit_analysis(req, sendOk, MaxJobs)
    \/ \E t \in TaskIds : task_start(t)
    \/ \E t \in TaskIds, storeOk \in BOOLEAN : step_initializing(t, storeOk)
    \/ \E t \in TaskIds, github \in CoreGithubOutcomes, lost \in BOOLEAN :
          step_create_crew(t, github, "ok", lost)
    \/ \E t \in TaskIds, storeOk \in BOOLEAN : step_running(t, storeOk)
    \/ \E t \in TaskIds, text \in CoreOutputs : step_kickoff(t, text)
    \/ \E t \in TaskIds, kind \in CoreKickoffExceptions, lost \in BOOLEAN :
          step_kickoff_fails(t, kind, lost)
    \/ \E t \in TaskIds, storeOk \in BOOLEAN : step_validating(t, storeOk)
    \/ \E t \in TaskIds : step_parse(t)
    \/ \E t \in TaskIds : step_except(t)
    \/ \E t \in QueryIds, readOk \in BOOLEAN : GetStatus(t, readOk)
    \/ \E t \in QueryIds, readOk \in BOOLEAN : GetResults(t, readOk)

Spec == Init /\ [][Next]_vars

\* one job, every request and every model output
NextPipeline ==
    \/ \E req \in Payloads, sendOk \in BOOLEAN : submit_analysis(req, sendOk, 1)
    \/ task_start(1)
    \/ \E storeOk \in BOOLEAN : step_initializing(1, storeOk)
    \/ \E github \in GithubOutcomes, build \in CrewBuildOutcomes, lost \in BOOLEAN :
          step_create_crew(1, github, build, lost)
    \/ \E storeOk \in BOOLEAN : step_running(1, storeOk)
    \/ \E text \in RawOutputs : step_kickoff(1, text)
    \/ \E kind \in KickoffExceptions, lost \in BOOLEAN : step_kickoff_fails(1, kind, lost)
    \/ \E storeOk \in BOOLEAN : step_validating(1, storeOk)
    \/ step_parse(1)
    \/ step_except(1)
    \/ \E t \in {UnknownId, 1}, readOk \in BOOLEAN : GetStatus(t, readOk)
    \/ \E t \in {UnknownId, 1}, readOk \in BOOLEAN : GetResults(t, readOk)

SpecPipeline == Init /\ [][NextPipeline]_vars

\* requests and model outputs of the fair pipeline
LiveRequests == {req \in Requests : req.github_token = "none"}
LiveOutputs == {<<"D_two">>, <<"D_emptyobj">>, <<"x">>, NoneRaw}

\* the steps of analyze_pr_task once a worker has picked the job up
WorkerStep(t) ==
    \/ \E storeOk \in BOOLEAN : step_initializing(t, storeOk)
    \/ \E github \in GithubOutcomes, build \in CrewBuildOutcomes, lost \in BOOLEAN :
          step_create_crew(t, github, build, lost)
    \/ \E storeOk \in BOOLEAN : step_running(t, storeOk)
    \/ \E text \in LiveOutputs : step_kickoff(t, text)
    \/ \E kind \in KickoffExceptions, lost \in BOOLEAN : step_kickoff_fails(t, kind, lost)
    \/ \E storeOk \in BOOLEAN : step_validating(t, storeOk)
    \/ step_parse(t)
    \/ step_except(t)

\* one job, every collaborator outcome, a model output of each kind (a valid
\* report, an invalid one, a text that is no JSON, no text)
NextLive ==
    \/ \E req \in LiveRequests, sendOk \in BOOLEAN : submit_analysis(req, sendOk, 1)
    \/ task_start(1)
    \/ WorkerStep(1)
    \/ \E readOk \in BOOLEAN : GetStatus(1, readOk)
    \/ \E readOk \in BOOLEAN : GetResults(1, readOk)

\* a worker keeps running the task it has picked up: every call of the body
\* returns, raises, or takes the process down
SpecLive == Init /\ [][NextLive]_vars /\ WF_vars(WorkerStep(1))

\* one job, every request body, the core collaborator outcomes
NextSubmit ==
    \/ \E req \in Payloads, sendOk \in BOOLEAN : submit_analysis(req, sendOk, 1)
    \/ task_start(1)
    \/ \E storeOk \in BOOLEAN : step_initializing(1, storeOk)
    \/ \E github \in CoreGithubOutcomes, lost \in BOOLEAN :
          step_create_crew(1, github, "ok", lost)
    \/ \E storeOk \in BOOLEAN : step_running(1, storeOk)
    \/ \E text \in CoreOutputs : step_kickoff(1, text)
    \/ \E kind \in CoreKickoffExceptions, lost \in BOOLEAN :
          step_kickoff_fails(1, kind, lost)
    \/ \E storeOk \in BOOLEAN : step_validating(1, storeOk)
    \/ step_parse(1)
    \/ step_except(1)
    \/ \E t \in {UnknownId, 1}, readOk \in BOOLEAN : GetStatus(t, readOk)
    \/ \E t \in {UnknownId, 1}, readOk \in BOOLEAN : GetResults(t, readOk)

SpecSubmit == Init /\ [][NextSubmit]_vars

\* a request the submit endpoint has no reason to reject
IsValidRequest(req) ==
    /\ Len(Strip(req.repo_url)) > 0
    /\ StartsWith(req.repo_url, <<GH>>)
    /\ req.pr_number > 0

\* the valid requests among the core requests
ValidCoreRequests == {req \in CoreRequests : IsValidRequest(req)}

\* several jobs, valid requests only
NextIds ==
    \/ \E req \in ValidCoreRequests, sendOk \in BOOLEAN :
          submit_analysis(req, sendOk, MaxJobs)
    \/ \E t \in TaskIds : task_start(t)
    \/ \E t \in TaskIds, storeOk \in BOOLEAN : step_initializing(t, storeOk)
    \/ \E t \in TaskIds, github \in CoreGithubOutcomes, lost \in BOOLEAN :
          step_create_crew(t, github, "ok", lost)
    \/ \E t \in TaskIds, storeOk \in BOOLEAN : step_running(t, storeOk)
    \/ \E t \in TaskIds, text \in CoreOutputs : step_kickoff(t, text)
    \/ \E t \in TaskIds, kind \in CoreKickoffExceptions, lost \in BOOLEAN :
          step_kickoff_fails(t, kind, lost)
    \/ \E t \in TaskIds, storeOk \in BOOLEAN : step_validating(t, storeOk)
    \/ \E t \in TaskIds : step_parse(t)
    \/ \E t \in TaskIds : step_except(t)
    \/ \E t \in QueryIds, readOk \in BOOLEAN : GetStatus(t, readOk)
    \/ \E t \in QueryIds, readOk \in BOOLEAN : GetResults(t, readOk)

SpecIds == Init /\ [][NextIds]_vars

\* one job of a valid request, the generated model outputs
NextTexts ==
    \/ \E req \in ValidCoreRequests : submit_analysis(req, TRUE, 1)
    \/ task_start(1)
    \/ step_initializing(1, TRUE)
    \/ step_create_crew(1, "ok", "ok", FALSE)
    \/ step_running(1, TRUE)
    \/ \E text \in TextInputs : step_kickoff(1, text)
    \/ \E kind \in CoreKickoffExceptions : step_kickoff_fails(1, kind, FALSE)
    \/ \E storeOk \in BOOLEAN : step_validating(1, storeOk)
    \/ step_parse(1)
    \/ step_except(1)
    \/ GetStatus(1, TRUE)
    \/ GetResults(1, TRUE)

SpecTexts == Init /\ [][NextTexts]_vars

\* ================================================================== claims
StateOf(b, t) == AsyncResult_state(b, t)
Rank(st) ==
    CASE st = "PENDING" -> 0
      [] st = "STARTED" -> 1
      [] st = "PROGRESS" -> 2
      [] OTHER -> 3
IssuedIds == 1..(nextId - 1)
HasStatus(r) == "status" \in DOMAIN r.body

C2_TerminalAbsorbing ==
    [][\A t \in TaskIds :
          (t \in DOMAIN backend /\ backend[t].state \in Terminal)
              => (t \in DOMAIN backend' /\ backend'[t] = backend[t])]_vars

\* one job ended in FAILURE, another in SUCCESS, and the results of the
\* first were just read
C2_Witness ==
    /\ \E t, u \in TaskIds :
          /\ StateOf(backend, t) = "FAILURE"
          /\ StateOf(backend, u) = "SUCCESS"
          /\ resp.op = "results"
          /\ resp.task_id = t

\* ---- C3
\* C3: the payload a task returned is exactly one of Completed,
\* LogicalFailure and ExceptionFailure.
C3_ExactlyOneVariant ==
    \A t \in DOMAIN backend :
        backend[t].state = "SUCCESS" =>
            Cardinality({k \in {"completed", "logical", "exception"} :
                            \/ k = "completed" /\ IsCompleted(backend[t].result)
                            \/ k = "logical" /\ IsLogicalFailure(backend[t].result)
                            \/ k = "exception" /\ IsExceptionFailure(backend[t].result)}) = 1

\* the parser itself raised: the payload is an ExceptionFailure built by
\* parse_and_validate_result
C3_Witness ==
    \E t \in DOMAIN backend :
        /\ backend[t].state = "SUCCESS"
        /\ IsExceptionFailure(backend[t].result)
        /\ backend[t].result["exception_type"] = JStr(<<"RecursionError">>)

\* ---- C4
\* C4: an Exception raised by create_code_review_crew (the GitHub fetch) or by
\* kickoff ends the task in SUCCESS with an ExceptionFailure payload whose
\* exception kind is the kind that call raised.
C4_CollaboratorException ==
    [][\A t \in TaskIds :
          (/\ pc[t] = "except"
           /\ caught[t].origin \in {"create_code_review_crew", "kickoff"}
           /\ pc'[t] = "done")
          => /\ StateOf(backend', t) = "SUCCESS"
             /\ IsExceptionFailure(backend'[t].result)
             /\ backend'[t].result["exception_type"] = JStr(<<caught[t].exc.kind>>)]_vars

\* a failed GitHub fetch was stored as SUCCESS with kind GithubAPIError
C4_Witness ==
    \E t \in DOMAIN backend :
        /\ backend[t].state = "SUCCESS"
        /\ IsExceptionFailure(backend[t].result)
        /\ backend[t].result["exception_type"] = JStr(<<"GithubAPIError">>)

\* ---- C5
\* the parser reports a parse failure, or the parsed value fails the schema
Unusable(text) ==
    LET parsed == json_loads(clean_llm_output(text))
    IN  \/ ~parsed.ok /\ parsed.exc = "JSONDecodeError"
        \/ parsed.ok /\ ~model_validate_ok(parsed.value)

ValidDocs == {"D_empty", "D_two", "D_extra", "D_nofiles", "D_noissues", "D_negline"}
SameIssue(out, in) ==
    /\ DOMAIN out.o = {"type", "line", "description", "suggestion"}
    /\ out.o["type"] = in.o["type"]
    /\ out.o["line"] = JInt(IntOf(in.o["line"]))
    /\ out.o["description"] = in.o["description"]
    /\ out.o["suggestion"] = in.o["suggestion"]

SameFile(out, in) ==
    /\ DOMAIN out.o = {"name", "issues"}
    /\ out.o["name"] = in.o["name"]
    /\ Len(out.o["issues"].a) = Len(issues_of(in).a)
    /\ \A i \in 1..Len(out.o["issues"].a) :
          SameIssue(out.o["issues"].a[i], issues_of(in).a[i])

SameReport(p, doc) ==
    /\ Len(p["files"].a) = Len(files_of(doc).a)
    /\ \A i \in 1..Len(p["files"].a) : SameFile(p["files"].a[i], files_of(doc).a[i])
    /\ \A k \in {"total_files", "total_issues", "critical_issues"} :
          p["summary"].o[k] = JInt(IntOf(doc.o["summary"].o[k]))

\* C6: a schema-valid document, bare or wrapped in a fence, is returned as
\* Completed: no 'error' key, the same files in the same order, the same
\* summary.
C6_ValidOutputCompleted ==
    [][\A t \in TaskIds :
          \A d \in ValidDocs :
             (pc[t] = "parse" /\ pc'[t] = "done" /\ raw[t] \in Wrappings(d))
             => /\ StateOf(backend', t) = "SUCCESS"
                /\ IsCompleted(backend'[t].result)
                /\ "error" \notin DOMAIN backend'[t].result
                /\ SameReport(backend'[t].result, DocValue[d])]_vars

\* the report of the document with files b, a and an extra 'error' key was
\* stored: order kept, extra key dropped
C6_Witness ==
    \E t \in DOMAIN backend :
        /\ backend[t].state = "SUCCESS"
        /\ IsCompleted(backend[t].result)
        /\ Len(backend[t].result["files"].a) = 2
        /\ backend[t].result["files"].a[1].o["name"] = JStr(<<"b">>)
        /\ backend[t].result["files"].a[2].o["name"] = JStr(<<"a">>)

\* ---- C7
\* C7: GET /results answers COMPLETED only for a job whose stored state is
\* SUCCESS and whose stored payload is Completed.
C7_CompletedOnlyFromCompleted ==
    (resp.op = "results" /\ HasStatus(resp) /\ resp.body.status = "COMPLETED")
    => /\ StateOf(backend, resp.task_id) = "SUCCESS"
       /\ IsCompleted(backend[resp.task_id].result)
       /\ resp.body.results = backend[resp.task_id].result

\* a COMPLETED answer was sent
C7_Witness ==
    /\ resp.op = "results"
    /\ resp.code = 200
    /\ HasStatus(resp)
    /\ resp.body.status = "COMPLETED"

\* ---- C8
\* C8: for SUCCESS with a failure payload GET /results answers FAILED with the
\* payload's error and, as details, the snippet of a LogicalFailure or the
\* exception kind of an ExceptionFailure; for FAILURE it answers FAILED with
\* the exception text as details.
C8_FailedShape ==
    (resp.op = "results" /\ HasStatus(resp) /\ resp.body.status # "ERROR")
    => LET t == resp.task_id
       IN  /\ (StateOf(backend, t) = "SUCCESS" /\ "error" \in DOMAIN backend[t].result)
              => resp.body =
                   [task_id |-> t, status |-> "FAILED",
                    error |-> backend[t].result["error"],
                    details |-> IF IsLogicalFailure(backend[t].result)
                                   THEN backend[t].result["raw_response"]
                                   ELSE backend[t].result["exception_type"]]
           /\ StateOf(backend, t) = "FAILURE"
              => /\ resp.body.status = "FAILED"
                 /\ resp.body.details = JStr(<<WorkerLost.text>>)

\* ---- C9
\* C9: whatever the store holds, the status of the GET /results response is
\* one of PENDING, PROGRESS, COMPLETED, FAILED, with no internal error.
C9_FourShapes ==
    \A t \in QueryIds :
        LET r == get_analysis_results(backend, t, TRUE)
        IN  /\ r.code = 200
            /\ r.body.status \in {"PENDING", "PROGRESS", "COMPLETED", "FAILED"}

\* ---- C10
\* C10 as stated: for an id no submission issued, the facade reports no job
\* state.
C10_Original ==
    (resp.op \in {"status", "results"} /\ resp.task_id \notin IssuedIds)
    => ~(HasStatus(resp) /\ resp.body.status \in StoreStates)

\* C10 (amended): for an id no submission issued, when the store can be read,
\* GET /status answers 200 {task_id, status: PENDING} and GET /results answers
\* 200 {task_id, status: PENDING, details: null}; no NotFound is reported.
C10_UnknownIsPending ==
    \A t \in QueryIds \ IssuedIds :
        /\ check_task_status(backend, t, TRUE)
             = Http(200, [task_id |-> t, status |-> "PENDING"])
        /\ get_analysis_results(backend, t, TRUE)
             = Http(200, [task_id |-> t, status |-> "PENDING", details |-> JNull])

\* the results of the never-issued id were asked for after a job was issued
C10_Witness ==
    /\ nextId > 1
    /\ resp.op = "results"
    /\ resp.task_id = UnknownId
    /\ HasStatus(resp)
    /\ resp.body.status = "PENDING"

\* ---- C11
\* C11 as stated: for an id no submission issued, GET /status and GET /results
\* answer 200 with a body that echoes the id and whose status is one of
\* FAILURE, PENDING, SUCCESS.
C11_Original ==
    (resp.op \in {"status", "results"} /\ resp.task_id \notin IssuedIds)
    => /\ resp.code = 200
       /\ HasStatus(resp)
       /\ resp.body.task_id = resp.task_id
       /\ resp.body.status \in {"FAILURE", "PENDING", "SUCCESS"}

\* C11 (amended): for an id no submission issued, GET /status and GET /results
\* answer 200 with a body that echoes the id and whose status is one of
\* FAILURE, PENDING, SUCCESS, or ERROR (reading the store failed).
C11_UnknownEchoed ==
    (resp.op \in {"status", "results"} /\ resp.task_id \notin IssuedIds)
    => /\ resp.code = 200
       /\ HasStatus(resp)
       /\ resp.body.task_id = resp.task_id
       /\ resp.body.status \in {"FAILURE", "PENDING", "SUCCESS", "ERROR"}

\* the status of the never-issued id was asked for while the store could not
\* be read
C11_Witness ==
    /\ resp.op = "status"
    /\ resp.task_id = UnknownId
    /\ resp.code = 200
    /\ resp.body = [task_id |-> UnknownId, status |-> "ERROR"]

\* ---- C12
\* C12: POST /analyze-pr answers 400 whenever repo_url is empty or whitespace
\* only, repo_url does not start with the GitHub prefix, or pr_number <= 0.
C12_BadRequest400 ==
    [][\A req \in Requests, sendOk \in BOOLEAN :
          (/\ \/ Len(Strip(req.repo_url)) = 0
              \/ ~StartsWith(req.repo_url, <<GH>>)
              \/ req.pr_number <= 0
           /\ submit_analysis(req, sendOk, 1))
          => resp'.code = 400]_vars

\* ---- C13
\* the requests the claim lists: a missing field, a wrong type, an empty or
\* non-GitHub repo_url, pr_number <= 0
Rejected(req) ==
    \/ "repo_url" \notin DOMAIN req
    \/ "pr_number" \notin DOMAIN req
    \/ /\ {"repo_url", "pr_number"} \subseteq DOMAIN req
       /\ \/ Len(Strip(req.repo_url)) = 0
          \/ ~StartsWith(req.repo_url, <<GH>>)
          \/ req.pr_number <= 0

\* C13: a rejected POST /analyze-pr (missing field, wrong type, empty or
\* non-GitHub repo_url, pr_number <= 0) is answered 400 or 422 and changes
\* nothing: no message is published, no task id is issued, the task store and
\* every task are as before.
C13_RejectedLeavesNoTrace ==
    [][\A req \in Payloads, sendOk \in BOOLEAN :
          (Rejected(req) /\ submit_analysis(req, sendOk, 1))
          => /\ resp'.op = "submit"
             /\ resp'.code \in {400, 422}
             /\ "task_id" \notin DOMAIN resp'.body
             /\ broker' = broker
             /\ nextId' = nextId
             /\ backend' = backend
             /\ pc' = pc]_vars

\* a job was queued and then a request was rejected with 400: the message is
\* still the only one and the store is still empty
C13_Witness ==
    /\ resp.op = "submit"
    /\ resp.code = 400
    /\ nextId = 2
    /\ Cardinality(broker) = 1
    /\ backend = <<>>

\* ---- C14

\* the submission answered 202 with {task_id, status: PENDING}, published
\* exactly one message, which carries that id and the request, and the id
\* names no job that existed before
EnqueuedOne(req) ==
    /\ resp'.code = 202
    /\ DOMAIN resp'.body = {"task_id", "status"}
    /\ resp'.body.status = "PENDING"
    /\ \E m \in broker' :
          /\ m \notin broker
          /\ broker' = broker \cup {m}
          /\ m.id = resp'.body.task_id
          /\ m.args = [repo_url |-> req.repo_url, pr_number |-> req.pr_number]
    /\ resp'.body.task_id \in TaskIds
    /\ pc[resp'.body.task_id] = "none"
    /\ resp'.body.task_id \notin DOMAIN backend
    /\ \A m \in broker : m.id # resp'.body.task_id
    /\ backend' = backend

\* the job published under id t is the job whose state the store holds under
\* t: the worker that takes the message of t runs with its arguments and
\* writes the entry of t, and only a step of job t changes the entry of t
ReportedUnderItsId ==
    \A t \in TaskIds :
        /\ (pc[t] = "queued" /\ pc'[t] # "queued")
              => \E m \in broker :
                    /\ m.id = t
                    /\ broker' = broker \ {m}
                    /\ args'[t] = m.args
                    /\ t \in DOMAIN backend'
        /\ StateOf(backend', t) # StateOf(backend, t) => pc'[t] # pc[t]
        /\ (resp'.op \in {"status", "results"} /\ resp'.task_id = t)
              => /\ resp'.body.task_id = t
                 /\ resp'.body.status \in {StateOf(backend', t), "ERROR", "COMPLETED", "FAILED"}

\* C14 as stated: every valid POST /analyze-pr enqueues exactly one job and
\* answers 202 {task_id, status: PENDING} with the id of that job, an id no
\* other submission got and under which the job is reported.
C14_Original ==
    [][/\ resp'.op = "submit"
          => \A req \in ValidCoreRequests, sendOk \in BOOLEAN :
                submit_analysis(req, sendOk, MaxJobs) => EnqueuedOne(req)
       /\ ReportedUnderItsId]_vars

\* C14 (amended): every valid POST /analyze-pr whose message the broker
\* accepts enqueues exactly one job and answers 202 {task_id, status: PENDING}
\* with the id of that job, an id no other submission got and under which the
\* job is reported; when publishing fails it answers 500 and enqueues nothing.
C14_ValidEnqueuesOne ==
    [][/\ resp'.op = "submit"
          => \A req \in ValidCoreRequests :
                /\ submit_analysis(req, TRUE, MaxJobs) => EnqueuedOne(req)
                /\ submit_analysis(req, FALSE, MaxJobs)
                      => /\ resp'.code = 500
                         /\ broker' = broker
                         /\ nextId' = nextId
                         /\ backend' = backend
                         /\ pc' = pc
       /\ ReportedUnderItsId]_vars

\* a second submission got id 2 while the job with id 1 was already reported
\* by the store
C14_Witness ==
    /\ resp.op = "submit"
    /\ resp.code = 202
    /\ resp.body = [task_id |-> 2, status |-> "PENDING"]
    /\ 1 \in DOMAIN backend
    /\ \E m \in broker : m.id = 2

\* ---- C15
\* the texts a running task holds as result.raw
HeldTexts == {raw[t] : t \in {u \in TaskIds : pc[u] \in {"validating", "parse"}}} \ {NoneRaw}

\* C15 as stated: for every text T,
\* clean_llm_output(clean_llm_output(T)) = clean_llm_output(T).
C15_Original ==
    \A T \in HeldTexts :
        clean_llm_output(clean_llm_output(T)) = clean_llm_output(T)

\* C15 (amended): for every text T whose normalized form neither begins nor
\* ends with a fence marker,
\* clean_llm_output(clean_llm_output(T)) = clean_llm_output(T).
C15_Idempotent ==
    \A T \in HeldTexts :
        (/\ ~StartsWith(clean_llm_output(T), Fence)
         /\ ~EndsWith(clean_llm_output(T), Fence))
        => clean_llm_output(clean_llm_output(T)) = clean_llm_output(T)

\* a task holds a document in a json fence: normalizing changes it, and the
\* normalized form carries no fence
C15_Witness ==
    \E t \in TaskIds :
        /\ pc[t] = "parse"
        /\ raw[t] = FenceJson \o <<"D_empty">> \o Fence
        /\ clean_llm_output(raw[t]) = <<"D_empty">>

\* ---- C16
\* the characters of a language tag
TagChars == {"j", "s", "o", "n", "p", "y", "x"}
\* the text without the language tag it begins with
DropTag(s) ==
    LET stop == {i \in 1..Len(s) : s[i] \notin TagChars}
    IN  IF stop = {} THEN <<>>
        ELSE SubSeq(s, CHOOSE i \in stop : \A j \in stop : i <= j, Len(s))

\* the trimmed text without one leading fence marker (the fence and its
\* language tag, whatever the tag) and one trailing fence, trimmed again
WithoutMarkers(T) ==
    LET t1 == Strip(T)
        t2 == IF StartsWith(t1, Fence) THEN DropTag(DropFirst(t1, FenceLen)) ELSE t1
        t3 == IF EndsWith(t2, Fence) THEN DropLast(t2, FenceLen) ELSE t2
    IN  Strip(t3)

\* C16: clean_llm_output returns the text with at most one leading fence
\* marker (the fence together with its optional language tag, whatever the
\* tag) and at most one trailing fence removed, then trimmed; a text without
\* fence markers is only trimmed.
C16_MarkersRemoved ==
    \A T \in HeldTexts :
        /\ clean_llm_output(T) = WithoutMarkers(T)
        /\ (\A i \in 1..Len(T) : T[i] # BT) => clean_llm_output(T) = Strip(T)

\* ---- C17
\* C17: clean_llm_output raises for no value a task can hold as the raw model
\* output (a text, the empty text, a result that is not a text): it always
\* returns a value.
C17_NeverRaises ==
    \A t \in TaskIds :
        pc[t] \in {"validating", "parse"} => ~clean_llm_output_raises(raw[t])

\* ---- C18
\* the text is not one JSON document
NotJson(c) == ~(Len(c) = 1 /\ c[1] \in DocNames \cup {DeepDoc})
\* the first SnippetLen characters of c, all of c when it is shorter
FirstChars(c) == IF Len(c) <= SnippetLen THEN c ELSE [i \in 1..SnippetLen |-> c[i]]

\* C18: when the normalized text is not well-formed JSON, the task returns a
\* LogicalFailure with the parser's message whose snippet is exactly the first
\* 1000 characters of the normalized text (all of it when shorter); the
\* validator's message never appears.
C18_ParseFailureSnippet ==
    [][\A t \in TaskIds :
          (/\ pc[t] = "parse"
           /\ pc'[t] = "done"
           /\ NotJson(clean_llm_output(raw[t])))
          => /\ StateOf(backend', t) = "SUCCESS"
             /\ IsLogicalFailure(backend'[t].result)
             /\ DOMAIN backend'[t].result = {"error", "raw_response"}
             /\ backend'[t].result["error"] = ParseErrorMsg
             /\ backend'[t].result["error"] # ValidationErrorMsg
             /\ backend'[t].result["raw_response"]
                  = JStr(FirstChars(clean_llm_output(raw[t])))]_vars

\* a normalized text of 1001 characters was cut to a snippet of 1000
C18_Witness ==
    \E t \in DOMAIN backend :
        /\ backend[t].state = "SUCCESS"
        /\ IsLogicalFailure(backend[t].result)
        /\ backend[t].result["error"] = ParseErrorMsg
        /\ Len(backend[t].result["raw_response"].s) = 1000
        /\ Len(LongText) = 1001

\* ---- C19
\* the documents that parse and fail the schema, stated on the document
InvalidDocs ==
    {"D_negcount", "D_badline", "D_path", "D_nosum", "D_emptyobj",
     "D_zero", "D_seven", "D_null", "D_long"}

\* C19: when the output parses and fails schema validation, the task returns
\* a LogicalFailure with the validator's message and, as raw_response, the
\* complete parsed value, unchanged and not cut to any length.
C19_ValidationFailureValue ==
    [][\A t \in TaskIds :
          \A d \in InvalidDocs :
             (pc[t] = "parse" /\ pc'[t] = "done" /\ raw[t] \in Wrappings(d))
             => /\ StateOf(backend', t) = "SUCCESS"
                /\ IsLogicalFailure(backend'[t].result)
                /\ backend'[t].result
                     = [error |-> ValidationErrorMsg, raw_response |-> DocValue[d]]]_vars

\* a parsed list of 1001 elements, longer than the snippet length, was
\* stored whole
C19_Witness ==
    \E t \in DOMAIN backend :
        /\ backend[t].state = "SUCCESS"
        /\ IsLogicalFailure(backend[t].result)
        /\ backend[t].result["error"] = ValidationErrorMsg
        /\ backend[t].result["raw_response"].t = "arr"
        /\ Len(backend[t].result["raw_response"].a) = SnippetLen + 1

\* ---- C20
\* C20: no report with a negative summary count or with an issue whose line
\* is less than 1 is returned as Completed: in every Completed report the
\* three counts are >= 0 and every issue has line >= 1.
C20_NumericBounds ==
    \A t \in DOMAIN backend :
        (backend[t].state = "SUCCESS" /\ IsCompleted(backend[t].result))
        => /\ \A k \in {"total_files", "total_issues", "critical_issues"} :
                 backend[t].result["summary"].o[k].i >= 0
           /\ \A i \in 1..Len(backend[t].result["files"].a) :
                 \A j \in 1..Len(backend[t].result["files"].a[i].o["issues"].a) :
                    backend[t].result["files"].a[i].o["issues"].a[j].o["line"].i >= 1

\* ---- C21
IssueKeys == {"type", "line", "description", "suggestion"}
SummaryKeys == {"total_files", "total_issues", "critical_issues"}

\* an object among the elements of the list under key k of o lacks one of keys
SomeLacks(o, k, keys) ==
    IF k \in DOMAIN o /\ o[k].t = "arr"
        THEN \E i \in 1..Len(o[k].a) :
                o[k].a[i].t = "obj" /\ \E x \in keys : x \notin DOMAIN o[k].a[i].o
        ELSE FALSE

\* a file of the report has an issue that lacks one of its four fields
SomeIssueLacks(o) ==
    IF "files" \in DOMAIN o /\ o["files"].t = "arr"
        THEN \E i \in 1..Len(o["files"].a) :
                o["files"].a[i].t = "obj"
                /\ SomeLacks(o["files"].a[i].o, "issues", IssueKeys)
        ELSE FALSE

\* the report lacks summary, a summary count, a file's name or a field of an
\* issue
LacksRequired(v) ==
    \/ "summary" \notin DOMAIN v.o
    \/ IF "summary" \in DOMAIN v.o /\ v.o["summary"].t = "obj"
          THEN \E x \in SummaryKeys : x \notin DOMAIN v.o["summary"].o
          ELSE FALSE
    \/ SomeLacks(v.o, "files", {"name"})
    \/ SomeIssueLacks(v.o)

\* the report lacks any field of the schema: a required one, files, or the
\* issues of a file
LacksField(v) ==
    \/ LacksRequired(v)
    \/ "files" \notin DOMAIN v.o
    \/ SomeLacks(v.o, "files", {"issues"})

ObjectDocs == {d \in DocNames : DocValue[d].t = "obj"}

\* C21 as stated: a parsed report that lacks any of files, summary, a file's
\* name or issues, an issue's type, line, description or suggestion, or a
\* summary count fails validation and is returned as a LogicalFailure.
C21_Original ==
    [][\A t \in TaskIds :
          (pc[t] = "parse" /\ pc'[t] = "done")
          => \A d \in ObjectDocs :
                (raw[t] \in Wrappings(d) /\ LacksField(DocValue[d]))
                => /\ IsLogicalFailure(backend'[t].result)
                   /\ backend'[t].result["error"] = ValidationErrorMsg]_vars

\* C21 (amended): a parsed report that lacks summary, a file's name, an
\* issue's type, line, description or suggestion, or a summary count fails
\* validation and is returned as a LogicalFailure carrying the parsed value;
\* a report that lacks only files, or only the issues of a file, validates:
\* the missing list is taken as empty and the report is returned as Completed.
C21_PresenceChecked ==
    [][\A t \in TaskIds :
          (pc[t] = "parse" /\ pc'[t] = "done")
          => \A d \in ObjectDocs :
                raw[t] \in Wrappings(d)
                => /\ LacksRequired(DocValue[d])
                      => /\ IsLogicalFailure(backend'[t].result)
                         /\ backend'[t].result["error"] = ValidationErrorMsg
                         /\ backend'[t].result["raw_response"] = DocValue[d]
                   /\ d = "D_nofiles"
                      => /\ IsCompleted(backend'[t].result)
                         /\ backend'[t].result["files"] = JArr(<<>>)
                   /\ d = "D_noissues"
                      => /\ IsCompleted(backend'[t].result)
                         /\ Len(backend'[t].result["files"].a) = 1
                         /\ backend'[t].result["files"].a[1].o["issues"] = JArr(<<>>)]_vars

\* a report whose only issue lacks its suggestion was returned as a
\* LogicalFailure
C21_Witness ==
    \E t \in DOMAIN backend :
        /\ backend[t].state = "SUCCESS"
        /\ IsLogicalFailure(backend[t].result)
        /\ backend[t].result["raw_response"] = DocValue["D_nosugg"]
        /\ LacksRequired(DocValue["D_nosugg"])
        /\ ~LacksRequired(DocValue["D_two"])

\* ---- C22
IsRead(r) == r.op \in {"status", "results"}
IsErrorResp(r) == HasStatus(r) /\ r.body.status = "ERROR"

\* C22 as stated: GET /status and GET /results leave every job's stored state,
\* progress metadata and result unchanged, and two consecutive calls of the
\* same endpoint for the same id return the same response.
C22_Original ==
    [][IsRead(resp')
       => /\ UNCHANGED <<nextId, broker, backend, pc, args, raw, caught>>
          /\ (resp.op = resp'.op /\ resp.task_id = resp'.task_id) => resp' = resp]_vars

\* C22 (amended): GET /status and GET /results leave every job's stored state,
\* progress metadata and result unchanged, and two consecutive calls of the
\* same endpoint for the same id return the same response when the store
\* read succeeds in both; a call whose store read fails answers ERROR,
\* whatever the call before it answered.
C22_ReadOnlyProjection ==
    [][IsRead(resp')
       => /\ UNCHANGED <<nextId, broker, backend, pc, args, raw, caught>>
          /\ (resp.op = resp'.op /\ resp.task_id = resp'.task_id)
             => \/ resp' = resp
                \/ IsErrorResp(resp) /\ ~IsErrorResp(resp')
                \/ ~IsErrorResp(resp) /\ IsErrorResp(resp')]_vars

\* GET /results has answered for a job that is in progress
C22_Witness ==
    /\ resp.op = "results"
    /\ resp.task_id \in DOMAIN backend
    /\ backend[resp.task_id].state = "PROGRESS"
    /\ resp.body.status = "PROGRESS"
    /\ resp.body.details = JObj(backend[resp.task_id].result)

\* ---- C23
\* the last step was a read of a job whose stored state is not terminal
ReadOfUnfinished == IsRead(resp) /\ StateOf(backend, resp.task_id) \notin Terminal

StoreErrorMsg == JStr(<<"Error retrieving task status">>)

\* C24: when reading the task store fails, get_task_status returns status
\* ERROR, which is no job state, with the error message, whatever the store
\* holds for the id; GET /status answers 200 with that status and GET /results
\* answers 200 with that status and the message as details.
C24_StoreErrorPassedOn ==
    /\ "ERROR" \notin StoreStates
    /\ \A t \in QueryIds :
          /\ get_task_status(backend, t, FALSE)
                = [task_id |-> t, status |-> "ERROR", result |-> StoreErrorMsg]
          /\ check_task_status(backend, t, FALSE)
                = Http(200, [task_id |-> t, status |-> "ERROR"])
          /\ get_analysis_results(backend, t, FALSE)
                = Http(200, [task_id |-> t, status |-> "ERROR", details |-> StoreErrorMsg])
    /\ (IsRead(resp) /\ IsErrorResp(resp))
       => /\ resp.code = 200
          /\ resp.body.task_id = resp.task_id
          /\ resp.op = "results" => resp.body.details = StoreErrorMsg

\* GET /results has answered ERROR for a job whose result is stored
C24_Witness ==
    /\ resp.op = "results"
    /\ IsErrorResp(resp)
    /\ StateOf(backend, resp.task_id) = "SUCCESS"

\* ---- C25
\* the worker process of the job was lost during a collaborator call, which
\* then neither returned nor raised
WorkerWasLost(t) ==
    /\ StateOf(backend, t) = "FAILURE"
    /\ backend[t].result["exc_type"] = JStr(<<WorkerLost.kind>>)

PickedUp(t) == pc[t] \notin {"none", "queued", "done"}

\* C25: a job a worker has picked up eventually reaches SUCCESS unless the
\* worker process is lost during a collaborator call; no state is FAILURE
\* for another reason, so an Exception raised in the body of analyze_pr_task
\* neither leaves the job in PROGRESS nor moves it to FAILURE.
C25_EventuallySuccess ==
    /\ \A t \in TaskIds :
          PickedUp(t) ~> (StateOf(backend, t) = "SUCCESS" \/ WorkerWasLost(t))
    /\ [](\A t \in TaskIds : StateOf(backend, t) = "FAILURE" => WorkerWasLost(t))
    /\ \A t \in TaskIds :
          (pc[t] = "except") ~> (/\ StateOf(backend, t) = "SUCCESS"
                                /\ IsExceptionFailure(backend[t].result))

\* a failed progress update was caught and the job ended in SUCCESS
C25_Witness ==
    \E t \in DOMAIN backend :
        /\ backend[t].state = "SUCCESS"
        /\ IsExceptionFailure(backend[t].result)
        /\ backend[t].result["exception_type"] = JStr(<<"ConnectionError">>)

\* ---- C26
InvalidUrlFormat == Exc("GithubAPIError", "Failed to fetch PR context: Invalid GitHub URL format")

\* C26: every repo_url of an enqueued job (one validate_analysis_request
\* accepted) is accepted by extract_repo_info_from_url, and no task reaches
\* its except clause, and so ends as an ExceptionFailure, because of the
\* format of its repo_url.
C26_UrlValidationAgrees ==
    /\ \A m \in broker :
          /\ validate_analysis_request([repo_url |-> m.args.repo_url,
                                        pr_number |-> m.args.pr_number]) = 0
          /\ extract_repo_info_from_url(m.args.repo_url)
    /\ \A t \in TaskIds : pc[t] = "except" => caught[t].exc # InvalidUrlFormat

\* ---- C27
TaskArgNames == {"repo_url", "pr_number"}

====
